---- MODULE Spec2Model ----
(***************************************************************************)
(* Model of server/scripts/analyze_audio.py and                            *)
(* server/scripts/analyze_batch.py: Krumhansl-Schmuckler key detection,    *)
(* mood classification, the per-file feature extraction with its           *)
(* try/except boundary, the process-pool batch orchestration and the two   *)
(* command-line entry points.                                              *)
(*                                                                         *)
(* Numbers.  The scripts compute in IEEE doubles.  The model computes in   *)
(* exact arithmetic: a scalar is a fraction [n, d] (d = 0 encodes nan and  *)
(* the infinities), the profile vectors are held in hundredths, and a      *)
(* Pearson coefficient is held as N / sqrt(VX * VP) and compared by        *)
(* cross-multiplying squares in arbitrary precision.                       *)
(***************************************************************************)
EXTENDS Integers, Sequences, FiniteSets, TLC

VARIABLES
    key_chroma,     \* detect_key: the chroma matrix passed in (a sequence of frames)
    key_pc,         \* detect_key: "call" before the call, "ret" after
    key_result,     \* detect_key: the returned label
    mood_in,        \* classify_mood: the arguments [energy, valence, tempo]
    mood_pc,        \* classify_mood: "call" before the call, "ret" after
    mood_out,       \* classify_mood: the returned label
    au_argv,        \* analyze_audio.py: sys.argv[1:], a sequence of file identifiers
    au_lib,         \* analyze_audio.py: what the audio library does for argv[1]
    au_pc,          \* analyze_audio.py: "main", "analyzed", "exit"
    au_call,        \* analyze_audio.py: how the call analyze(file_path) ended
    au_stdout,      \* analyze_audio.py: the JSON payloads printed
    au_exit,        \* analyze_audio.py: the exit status (-1 while running)
    invocation,     \* analyze_batch.py: argv and standard input of the run
    file_paths,     \* analyze_batch.py: the list `file_paths` of __main__
    workers,        \* analyze_batch.py: `workers`: [given, n] (given = FALSE is None)
    pc,             \* analyze_batch.py: where the main thread is
    max_workers,    \* analyze_batch: the pool's max_workers (0 before the pool exists)
    broken,         \* analyze_batch: the pool is broken (a worker process died)
    futures,        \* analyze_batch: one [path, state, collected] per submit, in order
    results,        \* analyze_batch: the dict `results`
    returned,       \* analyze_batch: the value returned ([done, value])
    escaped,        \* analyze_batch.py: the exception that ended the run ("" if none)
    stdout,         \* analyze_batch.py: the JSON payloads printed
    exit_status     \* analyze_batch.py: the exit status (-1 while running)

keyVars == <<key_chroma, key_pc, key_result>>
moodVars == <<mood_in, mood_pc, mood_out>>
auVars == <<au_argv, au_lib, au_pc, au_call, au_stdout, au_exit>>
batchVars == <<invocation, file_paths, workers, pc, max_workers, broken, futures,
               results, returned, escaped, stdout, exit_status>>
vars == <<keyVars, moodVars, auVars, batchVars>>

----------------------------------------------------------------------------
(* Arbitrary-precision naturals: little-endian sequences of limbs.         *)

Base == 10000

RECURSIVE BigOfNat(_)
BigOfNat(n) == IF n = 0 THEN <<>> ELSE <<n % Base>> \o BigOfNat(n \div Base)

RECURSIVE BigAddC(_, _, _)
BigAddC(a, b, carry) ==
    IF a = <<>> /\ b = <<>>
    THEN IF carry = 0 THEN <<>> ELSE <<carry>>
    ELSE LET x == IF a = <<>> THEN 0 ELSE Head(a)
             y == IF b = <<>> THEN 0 ELSE Head(b)
             s == x + y + carry
         IN  <<s % Base>> \o BigAddC(IF a = <<>> THEN <<>> ELSE Tail(a),
                                     IF b = <<>> THEN <<>> ELSE Tail(b),
                                     s \div Base)

RECURSIVE BigMulLimb(_, _, _)
BigMulLimb(a, m, carry) ==
    IF a = <<>>
    THEN IF carry = 0 THEN <<>> ELSE <<carry>>
    ELSE LET s == Head(a) * m + carry
         IN  <<s % Base>> \o BigMulLimb(Tail(a), m, s \div Base)

RECURSIVE BigMul(_, _)
BigMul(a, b) ==
    IF a = <<>> \/ b = <<>> THEN <<>>
    ELSE BigAddC(BigMulLimb(a, Head(b), 0), <<0>> \o BigMul(a, Tail(b)), 0)

RECURSIVE BigTrim(_)
BigTrim(a) ==
    IF a = <<>> THEN <<>>
    ELSE IF a[Len(a)] = 0 THEN BigTrim(SubSeq(a, 1, Len(a) - 1)) ELSE a

RECURSIVE BigLtSameLen(_, _, _)
BigLtSameLen(a, b, i) ==
    IF i = 0 THEN FALSE
    ELSE IF a[i] # b[i] THEN a[i] < b[i]
    ELSE BigLtSameLen(a, b, i - 1)

BigLt(a, b) ==
    LET x == BigTrim(a)
        y == BigTrim(b)
    IN  IF Len(x) # Len(y) THEN Len(x) < Len(y) ELSE BigLtSameLen(x, y, Len(x))

Abs(n) == IF n < 0 THEN -n ELSE n

----------------------------------------------------------------------------
(* Krumhansl-Schmuckler key profiles, in hundredths.                       *)

MAJOR_PROFILE == <<635, 223, 348, 233, 438, 409, 252, 519, 239, 366, 229, 288>>
MINOR_PROFILE == <<633, 268, 352, 538, 260, 353, 254, 475, 398, 269, 334, 317>>
KEY_NAMES == <<"C", "C#", "D", "D#", "E", "F", "F#", "G", "G#", "A", "A#", "B">>

NumPitchClasses == 12

PitchClasses == 1..NumPitchClasses

\* np.roll(profile, i) with the opposite sign of the shift
np_roll_left(profile, i) ==
    [j \in PitchClasses |-> profile[((j - 1 + i) % NumPitchClasses) + 1]]

\* np.roll(profile, i): element j of the input moves to position j + i (cyclically)
np_roll(profile, i) ==
    [j \in PitchClasses |-> profile[((j - 1 - i) % NumPitchClasses) + 1]]

RECURSIVE SumTo(_, _)
SumTo(f, n) == IF n = 0 THEN 0 ELSE f[n] + SumTo(f, n - 1)

\* np.mean(chroma, axis=1): per pitch class, the mean over the T frames, held as
\* the sum over the frames (num) and the frame count (den)
np_mean_axis1(chroma) ==
    [num |-> [j \in PitchClasses |->
                 SumTo([t \in 1..Len(chroma) |-> chroma[t][j]], Len(chroma))],
     den |-> Len(chroma)]

\* np.corrcoef(x, y)[0, 1] for x = mean.num / mean.den: with
\*   N  = 12*Sum(x*y) - Sum(x)*Sum(y),  VX = 12*Sum(x*x) - Sum(x)^2,  VY likewise,
\* the coefficient is N / sqrt(VX * VY); the common factor mean.den cancels
\* (N carries it once, VX twice under the root).  VX * VY = 0 gives nan.
np_corrcoef01(mean, y) ==
    LET x   == mean.num
        sx  == SumTo(x, NumPitchClasses)
        sy  == SumTo(y, NumPitchClasses)
        sxy == SumTo([j \in PitchClasses |-> x[j] * y[j]], NumPitchClasses)
        sxx == SumTo([j \in PitchClasses |-> x[j] * x[j]], NumPitchClasses)
        syy == SumTo([j \in PitchClasses |-> y[j] * y[j]], NumPitchClasses)
    IN  [n  |-> NumPitchClasses * sxy - sx * sy,
         vx |-> NumPitchClasses * sxx - sx * sx,
         vy |-> NumPitchClasses * syy - sy * sy]

CorrIsNan(c) == c.vx = 0 \/ c.vy = 0

\* |a|^2 * (vx*vy of b), the quantity compared when cross-multiplying
CorrCross(a, b) ==
    BigMul(BigMul(BigOfNat(Abs(a.n)), BigOfNat(Abs(a.n))),
           BigMul(BigOfNat(b.vx), BigOfNat(b.vy)))

\* a > b on floats: FALSE when either is nan
CorrGt(a, b) ==
    IF CorrIsNan(a) \/ CorrIsNan(b) THEN FALSE
    ELSE IF a.n >= 0 /\ b.n < 0 THEN TRUE
    ELSE IF a.n < 0 /\ b.n >= 0 THEN FALSE
    ELSE IF a.n >= 0 THEN BigLt(CorrCross(b, a), CorrCross(a, b))
    ELSE BigLt(CorrCross(a, b), CorrCross(b, a))

\* best_corr = -2, as the coefficient -2 / sqrt(1 * 1)
InitialBestCorr == [n |-> -2, vx |-> 1, vy |-> 1]

\* faulty variant of the comparison: a tie also replaces the best
ImprovesOrTies(corr, best_corr) ==
    CorrGt(corr, best_corr) \/
    (~CorrIsNan(corr) /\ ~CorrIsNan(best_corr) /\ ~CorrGt(best_corr, corr))

\* `major_corr > best_corr` / `minor_corr > best_corr`
Improves(corr, best_corr) == CorrGt(corr, best_corr)

\* one pass of the loop body `for i in range(12)`, then the rest of the loop:
\* b1 is (best_corr, best_key) after the first `if`, and the second `if` decides
\* what the next pass starts from
RECURSIVE DetectKeyLoop(_, _, _)
DetectKeyLoop(chroma_mean, i, best) ==
    IF i = NumPitchClasses THEN best.key
    ELSE LET major_rotated == np_roll(MAJOR_PROFILE, i)
             minor_rotated == np_roll(MINOR_PROFILE, i)
             major_corr == np_corrcoef01(chroma_mean, major_rotated)
             minor_corr == np_corrcoef01(chroma_mean, minor_rotated)
             b1 == IF Improves(major_corr, best.corr)
                   THEN [corr |-> major_corr, key |-> KEY_NAMES[i + 1] \o " major"]
                   ELSE best
         IN  IF Improves(minor_corr, b1.corr)
             THEN DetectKeyLoop(chroma_mean, i + 1,
                                [corr |-> minor_corr, key |-> KEY_NAMES[i + 1] \o " minor"])
             ELSE DetectKeyLoop(chroma_mean, i + 1, b1)

detect_key(chroma) ==
    DetectKeyLoop(np_mean_axis1(chroma), 0,
                  [corr |-> InitialBestCorr, key |-> "C major"])

----------------------------------------------------------------------------
(* Float scalars as fractions [n, d] with d >= 0: d > 0 is the finite      *)
(* value n/d, d = 0 is nan (n = 0), +inf (n > 0) or -inf (n < 0).          *)

F(n, d) == [n |-> n, d |-> d]

NaN == F(0, 0)
PosInf == F(1, 0)
NegInf == F(-1, 0)

FIsNan(x) == x.d = 0 /\ x.n = 0
FIsFinite(x) == x.d > 0

\* x > y on floats: FALSE when either is nan
FGt(x, y) ==
    /\ ~FIsNan(x)
    /\ ~FIsNan(y)
    /\ IF x.d = 0 /\ y.d = 0 THEN x.n > y.n ELSE x.n * y.d > y.n * x.d

\* x < y on floats
FLt(x, y) == FGt(y, x)

\* x >= y on floats
FGe(x, y) == ~FIsNan(x) /\ ~FIsNan(y) /\ ~FGt(y, x)

\* x / c for a finite constant c > 0
FDiv(x, c) == F(x.n * c.d, x.d * c.n)

\* the builtin max(a, b): b replaces a only when b > a
py_max(a, b) == IF FGt(b, a) THEN b ELSE a

\* the builtin min(a, b): b replaces a only when b < a
py_min(a, b) == IF FLt(b, a) THEN b ELSE a

RECURSIVE Pow10(_)
Pow10(k) == IF k = 0 THEN 1 ELSE 10 * Pow10(k - 1)

\* the builtin round(x, ndigits): to the nearest multiple of 10^-ndigits, a
\* half going to the even neighbour; nan and the infinities are returned as is
py_round(x, ndigits) ==
    IF x.d = 0 THEN x
    ELSE LET m == x.n * Pow10(ndigits)
             q == m \div x.d
             r == m % x.d
             up == 2 * r > x.d \/ (2 * r = x.d /\ q % 2 = 1)
         IN  F(IF up THEN q + 1 ELSE q, Pow10(ndigits))

----------------------------------------------------------------------------
(* classify_mood.                                                          *)

\* faulty variant: the first rule's energy boundary made inclusive
classify_mood_inclusive(energy, valence, tempo) ==
    IF FGe(energy, F(6, 10)) /\ FGt(tempo, F(120, 1)) THEN "energetic"
    ELSE IF FGt(energy, F(5, 10)) /\ FGt(valence, F(5, 10)) THEN "happy"
    ELSE IF FLt(energy, F(4, 10)) /\ FLt(valence, F(4, 10)) THEN "melancholic"
    ELSE IF FLt(energy, F(5, 10)) /\ FLt(tempo, F(100, 1)) THEN "chill"
    ELSE IF FGt(energy, F(7, 10)) THEN "intense"
    ELSE "neutral"

classify_mood(energy, valence, tempo) ==
    IF FGt(energy, F(6, 10)) /\ FGt(tempo, F(120, 1)) THEN "energetic"
    ELSE IF FGt(energy, F(5, 10)) /\ FGt(valence, F(5, 10)) THEN "happy"
    ELSE IF FLt(energy, F(4, 10)) /\ FLt(valence, F(4, 10)) THEN "melancholic"
    ELSE IF FLt(energy, F(5, 10)) /\ FLt(tempo, F(100, 1)) THEN "chill"
    ELSE IF FGt(energy, F(7, 10)) THEN "intense"
    ELSE "neutral"

----------------------------------------------------------------------------
(* analyze (analyze_audio.py) and analyze_single (analyze_batch.py): the   *)
(* same function under two names.  Its argument here is what the audio     *)
(* library does for the file: the step that raises (fail_at, 0 for none)   *)
(* and the values the primitives return.  A failing step raises a Python   *)
(* Exception (an I/O, format or numeric error of the library).             *)

AnalysisSteps ==
    <<"load", "beat_track", "chroma_key", "rms", "pulse", "centroid", "mood", "round">>

\* faulty variant: only the load is inside the try block
InsideTryLoadOnly(step) == step = "load"

\* the try block spans every step, from librosa.load to the return statement
InsideTry(step) == step \in {AnalysisSteps[i] : i \in 1..Len(AnalysisSteps)}

\* faulty variant: the upper clamp is missing
ClampLowOnly(x) == py_max(F(0, 1), x)

\* min(1.0, max(0.0, x))
Clamp01(x) == py_min(F(1, 1), py_max(F(0, 1), x))

Returned(value) == [kind |-> "return", value |-> value]
Raised(message) == [kind |-> "raise", value |-> [error |-> message]]

FailureRecord(message) == [error |-> message, success |-> FALSE]

analyze_single(lib) ==
    IF lib.fail_at # 0
    THEN LET step == AnalysisSteps[lib.fail_at]
         IN  IF InsideTry(step)
             THEN Returned(FailureRecord("failed: " \o step))
             ELSE Raised("failed: " \o step)
    ELSE LET bpm == lib.tempo
             key == detect_key(lib.chroma)
             energy == Clamp01(FDiv(lib.rms, F(15, 100)))
             danceability == Clamp01(lib.pulse)
             valence == Clamp01(FDiv(lib.centroid, F(5000, 1)))
             mood == classify_mood(energy, valence, bpm)
         IN  Returned([bpm |-> py_round(bpm, 1),
                       key |-> key,
                       energy |-> py_round(energy, 3),
                       danceability |-> py_round(danceability, 3),
                       valence |-> py_round(valence, 3),
                       mood |-> mood,
                       success |-> TRUE])

analyze(lib) == analyze_single(lib)

----------------------------------------------------------------------------
(* detect_key applied to bounded chroma matrices.                          *)

MaxFrames == 2

\* `profile` transposed to root pitch class k: the tonic weight profile[1] sits
\* on pitch class k (the input a caller builds, independently of the scan)
Transpose(profile, k) ==
    [j \in PitchClasses |-> profile[((j - 1 + NumPitchClasses - k) % NumPitchClasses) + 1]]

\* one-hot frame: all the energy in pitch class k
OneHot(k) == [j \in PitchClasses |-> IF j = k + 1 THEN 1 ELSE 0]

\* constant frame: the same energy in every pitch class
Flat(c) == [j \in PitchClasses |-> c]

Offsets == 0..(NumPitchClasses - 1)

\* T frames, each the major profile transposed by k
PureMajor(k, T) == [t \in 1..T |-> Transpose(MAJOR_PROFILE, k)]

MixFrames ==
    {Transpose(MAJOR_PROFILE, 0), Transpose(MAJOR_PROFILE, 7),
     Transpose(MINOR_PROFILE, 0), Transpose(MINOR_PROFILE, 9),
     OneHot(4), Flat(1)}

ChromaInputs ==
    {PureMajor(k, T) : k \in Offsets, T \in 1..MaxFrames}
        \cup UNION {[1..T -> MixFrames] : T \in 1..MaxFrames}

KeyIdle == key_chroma = <<>> /\ key_pc = "idle" /\ key_result = ""

NoCallYet == [kind |-> "none"]

MoodIdle == mood_in = <<>> /\ mood_pc = "idle" /\ mood_out = ""

AuIdle ==
    /\ au_argv = <<>>
    /\ au_lib = [fail_at |-> 0]
    /\ au_pc = "idle"
    /\ au_call = NoCallYet
    /\ au_stdout = <<>>
    /\ au_exit = -1

NoWorkers == [given |-> FALSE, n |-> 0]

NotReturned == [done |-> FALSE, value |-> <<>>]

BatchIdle ==
    /\ invocation = [stdin_mode |-> FALSE]
    /\ file_paths = <<>>
    /\ workers = NoWorkers
    /\ pc = "idle"
    /\ max_workers = 0
    /\ broken = FALSE
    /\ futures = <<>>
    /\ results = <<>>
    /\ returned = NotReturned
    /\ escaped = ""
    /\ stdout = <<>>
    /\ exit_status = -1

KeyInit ==
    /\ key_chroma \in ChromaInputs
    /\ key_pc = "call"
    /\ key_result = ""
    /\ MoodIdle
    /\ AuIdle
    /\ BatchIdle

DetectKeyCall ==
    /\ key_pc = "call"
    /\ key_result' = detect_key(key_chroma)
    /\ key_pc' = "ret"
    /\ UNCHANGED <<key_chroma, moodVars, auVars, batchVars>>

KeyNext == DetectKeyCall

SpecKey == KeyInit /\ [][KeyNext]_vars

----------------------------------------------------------------------------
(* Claims about detect_key.                                                *)

\* C8: for a chroma matrix whose every frame is the major profile rotated by k
\* semitones (k in 0..11, T >= 1 frames), detect_key returns the pitch-class
\* name at offset k followed by " major" ("C major" for k = 0).
C8_KeyRotation ==
    key_pc = "ret" =>
        \A k \in Offsets :
            key_chroma = PureMajor(k, Len(key_chroma)) =>
                key_result = KEY_NAMES[k + 1] \o " major"

\* a rotated input with a non-zero offset and more than one frame was labelled
C8_Witness ==
    /\ key_pc = "ret"
    /\ Len(key_chroma) = MaxFrames
    /\ key_chroma = PureMajor(9, MaxFrames)
    /\ key_result = "A major"

\* The 24 candidates in scan order: c = 2*offset + mode (0 major, 1 minor).
Candidates == 0..(2 * NumPitchClasses - 1)

CandProfile(c) ==
    Transpose(IF c % 2 = 0 THEN MAJOR_PROFILE ELSE MINOR_PROFILE, c \div 2)

CandLabel(c) ==
    KEY_NAMES[(c \div 2) + 1] \o (IF c % 2 = 0 THEN " major" ELSE " minor")

CandCorr(chroma, c) == np_corrcoef01(np_mean_axis1(chroma), CandProfile(c))

\* candidates whose correlation is defined and exceeds the floor -2
ValidCands(chroma) ==
    {c \in Candidates : CorrGt(CandCorr(chroma, c), InitialBestCorr)}

\* c attains the maximum over the valid candidates
AttainsMax(chroma, c) ==
    /\ c \in ValidCands(chroma)
    /\ \A c2 \in ValidCands(chroma) : ~CorrGt(CandCorr(chroma, c2), CandCorr(chroma, c))

\* C10: detect_key returns the label of the earliest candidate, in the order
\* offset 0 major, offset 0 minor, ..., offset 11 minor, that attains the
\* maximum correlation; with no valid correlation above the floor -2 (zero
\* variance chroma mean) it returns "C major".
C10_EarliestMaximum ==
    key_pc = "ret" =>
        IF ValidCands(key_chroma) = {}
        THEN key_result = "C major"
        ELSE \E c \in Candidates :
                /\ AttainsMax(key_chroma, c)
                /\ \A c2 \in Candidates : c2 < c => ~AttainsMax(key_chroma, c2)
                /\ key_result = CandLabel(c)

\* an exact tie for the maximum: one frame of the major profile at offset 0
\* and one at offset 7 correlate equally with C major (candidate 0) and G major
\* (candidate 14), and the earlier candidate is returned
C10_Witness ==
    /\ key_pc = "ret"
    /\ key_chroma = <<Transpose(MAJOR_PROFILE, 7), Transpose(MAJOR_PROFILE, 0)>>
    /\ AttainsMax(key_chroma, 0)
    /\ AttainsMax(key_chroma, 14)
    /\ key_result = CandLabel(0)

----------------------------------------------------------------------------
(* classify_mood applied to a grid of arguments around its thresholds.     *)

MoodEnergies ==
    {F(k, 100) : k \in {0, 30, 39, 40, 41, 45, 49, 50, 51, 59, 60, 61, 69, 70, 71, 100}}

MoodValences ==
    {F(k, 100) : k \in {0, 20, 30, 39, 40, 41, 49, 50, 51, 100}}

MoodTempos ==
    {F(t, 1) : t \in {0, 80, 90, 99, 100, 101, 119, 120, 121, 180}} \cup {NaN}

MoodInit ==
    /\ mood_in \in [energy : MoodEnergies, valence : MoodValences, tempo : MoodTempos]
    /\ mood_pc = "call"
    /\ mood_out = ""
    /\ KeyIdle
    /\ AuIdle
    /\ BatchIdle

ClassifyMoodCall ==
    /\ mood_pc = "call"
    /\ mood_out' = classify_mood(mood_in.energy, mood_in.valence, mood_in.tempo)
    /\ mood_pc' = "ret"
    /\ UNCHANGED <<mood_in, keyVars, auVars, batchVars>>

MoodNext == ClassifyMoodCall

SpecMood == MoodInit /\ [][MoodNext]_vars

\* The rule table of the claim: rule r of 1..5 and its label.
MoodRuleHolds(r, e, v, t) ==
    CASE r = 1 -> FGt(e, F(6, 10)) /\ FGt(t, F(120, 1))
      [] r = 2 -> FGt(e, F(5, 10)) /\ FGt(v, F(5, 10))
      [] r = 3 -> FLt(e, F(4, 10)) /\ FLt(v, F(4, 10))
      [] r = 4 -> FLt(e, F(5, 10)) /\ FLt(t, F(100, 1))
      [] r = 5 -> FGt(e, F(7, 10))

MoodRuleLabels == <<"energetic", "happy", "melancholic", "chill", "intense">>

MoodRules == 1..Len(MoodRuleLabels)

\* C7: classify_mood returns the label of the first satisfied rule of the
\* ordered table (strict comparisons: a value equal to a threshold does not
\* satisfy the rule), and "neutral" when no rule is satisfied.
C7_FirstMatch ==
    mood_pc = "ret" =>
        LET e == mood_in.energy
            v == mood_in.valence
            t == mood_in.tempo
            sat == {r \in MoodRules : MoodRuleHolds(r, e, v, t)}
        IN  IF sat = {}
            THEN mood_out = "neutral"
            ELSE \E r \in sat :
                    /\ \A r2 \in sat : r <= r2
                    /\ mood_out = MoodRuleLabels[r]

\* energy exactly on the first rule's threshold, tempo above its threshold: the
\* rule is not satisfied and the call falls through to a later label
C7_Witness ==
    /\ mood_pc = "ret"
    /\ mood_in = [energy |-> F(60, 100), valence |-> F(0, 100), tempo |-> F(121, 1)]
    /\ mood_out = "neutral"

----------------------------------------------------------------------------
(* analyze_audio.py as a program: argv, the call of analyze, the print.    *)

RmsMeans ==
    {F(-1, 100), F(0, 1), F(6, 100), F(9, 100), F(14999, 100000), F(15, 100),
     F(3, 10), NaN, PosInf}

PulseMeans ==
    {F(-5, 10), F(0, 1), F(12345, 100000), F(99996, 100000), F(15, 10), NaN}

CentroidMeans ==
    {F(-100, 1), F(0, 1), F(2000, 1), F(2501, 1), F(49999, 10), F(5000, 1),
     F(8000, 1), NaN}

Tempos == {F(80, 1), F(1205, 10), F(12345, 100)}

AnalyzeChromas == {PureMajor(0, 1), <<Flat(1)>>}

\* what the library does for a file that is analysed to the end
LibSuccesses ==
    [fail_at : {0}, tempo : Tempos, chroma : AnalyzeChromas, rms : RmsMeans,
     pulse : PulseMeans, centroid : CentroidMeans]

\* what the library does for a file one of whose steps raises
LibFailure(step) ==
    [fail_at |-> step, tempo |-> F(0, 1), chroma |-> <<Flat(0)>>, rms |-> F(0, 1),
     pulse |-> F(0, 1), centroid |-> F(0, 1)]

LibOutcomes == LibSuccesses \cup {LibFailure(s) : s \in 1..Len(AnalysisSteps)}

AuInit ==
    /\ \/ au_argv = <<>> /\ au_lib = LibFailure(1)
       \/ au_argv = <<"a.flac">> /\ au_lib \in LibOutcomes
       \/ au_argv = <<"a.flac", "b.flac">>
            /\ au_lib \in {LibFailure(s) : s \in 1..Len(AnalysisSteps)}
    /\ au_pc = "main"
    /\ au_call = NoCallYet
    /\ au_stdout = <<>>
    /\ au_exit = -1
    /\ KeyIdle
    /\ MoodIdle
    /\ BatchIdle

\* `if len(sys.argv) < 2`: print the usage error, exit 1
AudioMainUsage ==
    /\ au_pc = "main"
    /\ Len(au_argv) + 1 < 2
    /\ au_stdout' = <<[error |-> "Usage: python3 analyze_audio.py <file_path>"]>>
    /\ au_exit' = 1
    /\ au_pc' = "exit"
    /\ UNCHANGED <<au_argv, au_lib, au_call, keyVars, moodVars, batchVars>>

\* `result = analyze(sys.argv[1])`
AudioMainAnalyze ==
    /\ au_pc = "main"
    /\ Len(au_argv) + 1 >= 2
    /\ au_call' = analyze(au_lib)
    /\ au_pc' = "analyzed"
    /\ UNCHANGED <<au_argv, au_lib, au_stdout, au_exit, keyVars, moodVars, batchVars>>

\* `print(json.dumps(result))`; an exception out of analyze would end the
\* process with a traceback and status 1 instead
AudioMainPrint ==
    /\ au_pc = "analyzed"
    /\ IF au_call.kind = "return"
       THEN au_stdout' = <<au_call.value>> /\ au_exit' = 0
       ELSE au_stdout' = <<>> /\ au_exit' = 1
    /\ au_pc' = "exit"
    /\ UNCHANGED <<au_argv, au_lib, au_call, keyVars, moodVars, batchVars>>

AuNext == AudioMainUsage \/ AudioMainAnalyze \/ AudioMainPrint

SpecAnalyze == AuInit /\ [][AuNext]_vars

SuccessFields == {"bpm", "key", "energy", "danceability", "valence", "mood", "success"}

IsSuccessRecord(v) == DOMAIN v = SuccessFields /\ v.success = TRUE

IsFailureRecord(v) == DOMAIN v = {"error", "success"} /\ v.success = FALSE

\* C4: the per-file analysis never raises: whichever step fails, the call
\* returns, and what it returns is a success record with all six fields or a
\* failure record {error, success: false}.
C4_NeverRaises ==
    au_pc \in {"analyzed", "exit"} /\ Len(au_argv) >= 1 =>
        /\ au_call.kind = "return"
        /\ IsSuccessRecord(au_call.value) \/ IsFailureRecord(au_call.value)
        /\ au_lib.fail_at # 0 => IsFailureRecord(au_call.value)

\* the last step (rounding) failed and the call returned a failure record
C4_Witness ==
    /\ au_pc = "exit"
    /\ au_lib.fail_at = Len(AnalysisSteps)
    /\ au_call.kind = "return"
    /\ IsFailureRecord(au_call.value)
    /\ au_stdout = <<au_call.value>>

InUnitInterval(x) == FIsFinite(x) /\ FGe(x, F(0, 1)) /\ FGe(F(1, 1), x)

\* C9: in every success record energy, danceability and valence, as emitted
\* (after rounding to 3 decimals), lie in [0, 1], whatever the raw means.
C9_Clamped ==
    au_pc \in {"analyzed", "exit"} /\ Len(au_argv) >= 1 /\ au_call.kind = "return" =>
        (au_call.value.success =>
            /\ InUnitInterval(au_call.value.energy)
            /\ InUnitInterval(au_call.value.danceability)
            /\ InUnitInterval(au_call.value.valence))

\* a raw RMS mean above the divisor 0.15, a pulse mean above 1 and a negative
\* centroid mean, emitted as 1, 1 and 0
C9_Witness ==
    /\ au_pc = "exit"
    /\ au_lib.fail_at = 0
    /\ FGt(au_lib.rms, F(15, 100))
    /\ FGt(au_lib.pulse, F(1, 1))
    /\ FGt(F(0, 1), au_lib.centroid)
    /\ au_stdout[1].success
    /\ au_stdout[1].energy = F(1000, 1000)
    /\ au_stdout[1].danceability = F(1000, 1000)
    /\ au_stdout[1].valence = F(0, 1000)

----------------------------------------------------------------------------
(* analyze_batch.py as a program: __main__, analyze_batch and the process  *)
(* pool (concurrent.futures.ProcessPoolExecutor) it drives.                *)

MaxFiles == 3
MaxWorkersField == 2
WorkerCap == 4

Paths == {"a.flac", "b.flac", "bad.flac", "crash.flac"}
Flags == {"--fast"}

\* what a file is to the analysis: "ok" is analysed to the end, "raises" makes
\* librosa.load raise, "crash" kills the process that decodes it
FileKind(path) ==
    CASE path \in {"a.flac", "b.flac"} -> "ok"
      [] path = "bad.flac" -> "raises"
      [] path = "crash.flac" -> "crash"

FileLib(path) ==
    CASE path = "a.flac" ->
            [fail_at |-> 0, tempo |-> F(1205, 10), chroma |-> PureMajor(7, 1),
             rms |-> F(9, 100), pulse |-> F(12345, 100000), centroid |-> F(2501, 1)]
      [] path = "b.flac" ->
            [fail_at |-> 0, tempo |-> F(80, 1), chroma |-> <<Flat(1)>>,
             rms |-> F(3, 10), pulse |-> F(15, 10), centroid |-> F(-100, 1)]
      [] OTHER -> LibFailure(1)

\* analyze_single(path) for every path whose analysis ends
AnalysisTable == [p \in Paths |-> analyze_single(FileLib(p))]

BatchLists == UNION {[1..n -> Paths] : n \in 0..MaxFiles}

WorkerFields == {NoWorkers} \cup {[given |-> TRUE, n |-> k] : k \in 0..MaxWorkersField}

\* multiprocessing.cpu_count() on the machines considered
CpuCounts == {1, 8}

Invocations ==
    {[stdin_mode |-> FALSE, json |-> "none", args |-> l, workers_field |-> NoWorkers]
        : l \in BatchLists}
    \cup {[stdin_mode |-> FALSE, json |-> "none", args |-> <<"--fast">> \o l,
           workers_field |-> NoWorkers] : l \in {x \in BatchLists : Len(x) <= 1}}
    \cup {[stdin_mode |-> TRUE, json |-> "object", args |-> l, workers_field |-> w]
        : l \in BatchLists, w \in WorkerFields}
    \cup {[stdin_mode |-> TRUE, json |-> j, args |-> <<>>, workers_field |-> NoWorkers]
        : j \in {"invalid", "array"}}

BatchInit ==
    /\ invocation \in Invocations
    /\ file_paths = <<>>
    /\ workers = NoWorkers
    /\ pc = "main"
    /\ max_workers = 0
    /\ broken = FALSE
    /\ futures = <<>>
    /\ results = <<>>
    /\ returned = NotReturned
    /\ escaped = ""
    /\ stdout = <<>>
    /\ exit_status = -1
    /\ KeyIdle
    /\ MoodIdle
    /\ AuIdle

Min(a, b) == IF a < b THEN a ELSE b

NotFlag(arg) == arg \notin Flags

\* results[key] = value
DictSet(d, key, value) ==
    [k \in DOMAIN d \cup {key} |-> IF k = key THEN value ELSE d[k]]

\* the `else` branch of `if "--stdin" in sys.argv`
MainParseArgs ==
    /\ pc = "main"
    /\ ~invocation.stdin_mode
    /\ file_paths' = SelectSeq(invocation.args, NotFlag)
    /\ workers' = NoWorkers
    /\ pc' = "parsed"
    /\ UNCHANGED <<invocation, max_workers, broken, futures, results, returned,
                   escaped, stdout, exit_status, keyVars, moodVars, auVars>>

\* the `--stdin` branch: json.loads raises on text that is not JSON, and .get
\* raises on a JSON value that is not an object; neither is caught
MainParseStdin ==
    /\ pc = "main"
    /\ invocation.stdin_mode
    /\ IF invocation.json = "object"
       THEN /\ file_paths' = invocation.args
            /\ workers' = invocation.workers_field
            /\ pc' = "parsed"
            /\ UNCHANGED <<escaped, exit_status>>
       ELSE /\ escaped' = IF invocation.json = "invalid"
                          THEN "JSONDecodeError" ELSE "AttributeError"
            /\ exit_status' = 1
            /\ pc' = "exit"
            /\ UNCHANGED <<file_paths, workers>>
    /\ UNCHANGED <<invocation, max_workers, broken, futures, results, returned,
                   stdout, keyVars, moodVars, auVars>>

\* `if not file_paths`: print the error payload, exit 1
MainNoFiles ==
    /\ pc = "parsed"
    /\ file_paths = <<>>
    /\ stdout' = <<[error |-> "No files provided"]>>
    /\ exit_status' = 1
    /\ pc' = "exit"
    /\ UNCHANGED <<invocation, file_paths, workers, max_workers, broken, futures,
                   results, returned, escaped, keyVars, moodVars, auVars>>

\* `if len(file_paths) == 1`: analyze_single in the main process, print its
\* result; a file that kills its decoder kills this process here
MainSingle ==
    /\ pc = "parsed"
    /\ Len(file_paths) = 1
    /\ LET p == file_paths[1]
           call == AnalysisTable[p]
       IN  IF FileKind(p) = "crash"
           THEN /\ escaped' = "killed"
                /\ exit_status' = 128 + 11
                /\ UNCHANGED stdout
           ELSE IF call.kind = "return"
           THEN /\ stdout' = <<call.value>>
                /\ exit_status' = 0
                /\ UNCHANGED escaped
           ELSE /\ escaped' = "Exception"
                /\ exit_status' = 1
                /\ UNCHANGED stdout
    /\ pc' = "exit"
    /\ UNCHANGED <<invocation, file_paths, workers, max_workers, broken, futures,
                   results, returned, keyVars, moodVars, auVars>>

\* analyze_batch, to the creation of the pool: the default worker count, then
\* ProcessPoolExecutor(max_workers=workers), which raises ValueError on a
\* count <= 0
BatchCreatePool ==
    /\ pc = "parsed"
    /\ Len(file_paths) >= 2
    /\ \E cpu_count \in CpuCounts :
         LET w == IF workers.given THEN workers.n ELSE Min(cpu_count, WorkerCap)
         IN  IF w <= 0
             THEN /\ escaped' = "ValueError"
                  /\ exit_status' = 1
                  /\ pc' = "exit"
                  /\ UNCHANGED max_workers
             ELSE /\ max_workers' = w
                  /\ pc' = "submit"
                  /\ UNCHANGED <<escaped, exit_status>>
    /\ UNCHANGED <<invocation, file_paths, workers, broken, futures, results,
                   returned, stdout, keyVars, moodVars, auVars>>

\* one `executor.submit(analyze_single, path)` of the dict comprehension; submit
\* raises BrokenProcessPool once the pool is broken, and nothing catches it
BatchSubmit ==
    /\ pc = "submit"
    /\ IF broken
       THEN /\ escaped' = "BrokenProcessPool"
            /\ exit_status' = 1
            /\ pc' = "exit"
            /\ UNCHANGED futures
       ELSE /\ futures' = Append(futures, [path |-> file_paths[Len(futures) + 1],
                                           state |-> "pending",
                                           collected |-> FALSE])
            /\ pc' = IF Len(futures) + 1 = Len(file_paths) THEN "collect" ELSE "submit"
            /\ UNCHANGED <<escaped, exit_status>>
    /\ UNCHANGED <<invocation, file_paths, workers, max_workers, broken, results,
                   returned, stdout, keyVars, moodVars, auVars>>

InState(st) == {i \in 1..Len(futures) : futures[i].state = st}

\* a free worker process takes the oldest pending call
WorkerStart ==
    /\ pc \in {"submit", "collect"}
    /\ ~broken
    /\ InState("pending") # {}
    /\ Cardinality(InState("running")) < max_workers
    /\ LET i == CHOOSE j \in InState("pending") : \A k \in InState("pending") : j <= k
       IN  futures' = [futures EXCEPT ![i].state = "running"]
    /\ UNCHANGED <<invocation, file_paths, workers, pc, max_workers, broken, results,
                   returned, escaped, stdout, exit_status, keyVars, moodVars, auVars>>

\* a worker's analyze_single ends and its outcome reaches the future
WorkerFinish ==
    /\ pc \in {"submit", "collect"}
    /\ \E i \in InState("running") :
         /\ FileKind(futures[i].path) # "crash"
         /\ futures' = [futures EXCEPT ![i].state = "done"]
    /\ UNCHANGED <<invocation, file_paths, workers, pc, max_workers, broken, results,
                   returned, escaped, stdout, exit_status, keyVars, moodVars, auVars>>

\* a worker process dies in analyze_single: the pool is broken and every future
\* that is not finished gets the exception BrokenProcessPool
WorkerCrash ==
    /\ pc \in {"submit", "collect"}
    /\ \E i \in InState("running") :
         /\ FileKind(futures[i].path) = "crash"
         /\ futures' = [j \in 1..Len(futures) |->
                          IF futures[j].state \in {"pending", "running"}
                          THEN [futures[j] EXCEPT !.state = "failed"]
                          ELSE futures[j]]
    /\ broken' = TRUE
    /\ UNCHANGED <<invocation, file_paths, workers, pc, max_workers, results,
                   returned, escaped, stdout, exit_status, keyVars, moodVars, auVars>>

\* faulty variant: the loop over as_completed ends after its first future
LoopEndsAfterFirst(futs) == \E i \in 1..Len(futs) : futs[i].collected

\* as_completed(futures) is exhausted: every future has been yielded
AsCompletedExhausted(futs) == \A i \in 1..Len(futs) : futs[i].collected

\* future.result() for a finished future: the value analyze_single returned, or
\* the exception to raise
FutureResult(fut) ==
    IF fut.state = "done"
    THEN AnalysisTable[fut.path]
    ELSE Raised("A process in the process pool was terminated abruptly")

\* one pass of `for future in as_completed(futures)`: any finished future not
\* yet yielded; the try stores the result, the except stores a failure record
BatchCollect ==
    /\ pc = "collect"
    /\ ~AsCompletedExhausted(futures)
    /\ \E i \in 1..Len(futures) :
         /\ futures[i].state \in {"done", "failed"}
         /\ ~futures[i].collected
         /\ LET path == futures[i].path
                res == FutureResult(futures[i])
            IN  results' = DictSet(results, path,
                                   IF res.kind = "return" THEN res.value
                                   ELSE FailureRecord(res.value.error))
         /\ futures' = [futures EXCEPT ![i].collected = TRUE]
    /\ UNCHANGED <<invocation, file_paths, workers, pc, max_workers, broken,
                   returned, escaped, stdout, exit_status, keyVars, moodVars, auVars>>

\* the loop is over: leave the with block, `return results`
BatchReturn ==
    /\ pc = "collect"
    /\ AsCompletedExhausted(futures)
    /\ returned' = [done |-> TRUE, value |-> results]
    /\ pc' = "returned"
    /\ UNCHANGED <<invocation, file_paths, workers, max_workers, broken, futures,
                   results, escaped, stdout, exit_status, keyVars, moodVars, auVars>>

\* `print(json.dumps(results))`
MainPrintBatch ==
    /\ pc = "returned"
    /\ stdout' = <<returned.value>>
    /\ exit_status' = 0
    /\ pc' = "exit"
    /\ UNCHANGED <<invocation, file_paths, workers, max_workers, broken, futures,
                   results, returned, escaped, keyVars, moodVars, auVars>>

Next ==
    \/ MainParseArgs
    \/ MainParseStdin
    \/ MainNoFiles
    \/ MainSingle
    \/ BatchCreatePool
    \/ BatchSubmit
    \/ WorkerStart
    \/ WorkerFinish
    \/ WorkerCrash
    \/ BatchCollect
    \/ BatchReturn
    \/ MainPrintBatch

Init == BatchInit

Spec == Init /\ [][Next]_vars

----------------------------------------------------------------------------
(* Claims about analyze_batch and the entry points.                        *)

Range(seq) == {seq[i] : i \in 1..Len(seq)}

Distinct(seq) == \A i, j \in 1..Len(seq) : i # j => seq[i] # seq[j]

IsResultRecord(v) == IsSuccessRecord(v) \/ IsFailureRecord(v)

\* C1 as stated: the map analyze_batch returns for N submitted identifiers (a
\* sequence is accepted) has exactly N entries, every submitted identifier is a
\* key, and every entry is a success record or a failure record.
C1_ExactlyNEntries ==
    returned.done =>
        /\ Cardinality(DOMAIN returned.value) = Len(file_paths)
        /\ \A i \in 1..Len(file_paths) : file_paths[i] \in DOMAIN returned.value
        /\ \A p \in DOMAIN returned.value : IsResultRecord(returned.value[p])

\* C1 as amended: the map analyze_batch returns has exactly one entry per
\* distinct submitted identifier (N entries when the N identifiers are pairwise
\* distinct), whatever the worker count and the completion order, and every
\* entry is a success record or a failure record.
C1_OneEntryPerDistinctIdentifier ==
    returned.done =>
        /\ DOMAIN returned.value = Range(file_paths)
        /\ Distinct(file_paths) => Cardinality(DOMAIN returned.value) = Len(file_paths)
        /\ \A p \in DOMAIN returned.value : IsResultRecord(returned.value[p])

\* three distinct identifiers on two workers, returned with a success entry and
\* a failure entry
C1_Witness ==
    /\ returned.done
    /\ Len(file_paths) = 3
    /\ Distinct(file_paths)
    /\ max_workers = 2
    /\ \E p, q \in DOMAIN returned.value :
          IsSuccessRecord(returned.value[p]) /\ IsFailureRecord(returned.value[q])

CrashedPaths == {futures[i].path : i \in {j \in 1..Len(futures) :
                    FileKind(futures[j].path) = "crash" /\ futures[j].state = "failed"}}

\* C2: when a worker invocation fails outside analyze_single's try/except (the
\* worker process dies), analyze_batch does not abort: no exception leaves it,
\* and the map it returns holds a failure record under that identifier and an
\* entry for every other submitted identifier.
C2_CrashDoesNotAbort ==
    broken =>
        /\ escaped = ""
        /\ returned.done =>
              /\ \A p \in CrashedPaths : IsFailureRecord(returned.value[p])
              /\ Range(file_paths) \subseteq DOMAIN returned.value

FailingIndices == {i \in 1..Len(file_paths) : FileKind(file_paths[i]) # "ok"}

\* C3: in a batch where exactly one file fails its analysis and the others are
\* analysable, the returned map holds a success record for each of the others.
C3_SiblingsSucceed ==
    returned.done /\ Cardinality(FailingIndices) = 1 =>
        \A i \in 1..Len(file_paths) :
            FileKind(file_paths[i]) = "ok" => IsSuccessRecord(returned.value[file_paths[i]])

\* The same for a failure that analyze_single catches (librosa.load raises):
\* this case of C3 holds.
SiblingsSucceedWhenOneRaises ==
    returned.done /\ Cardinality(FailingIndices) = 1 /\ ~broken =>
        \A i \in 1..Len(file_paths) :
            FileKind(file_paths[i]) = "ok" => IsSuccessRecord(returned.value[file_paths[i]])

\* C5: every invocation ends having printed one JSON payload, and no failure
\* surfaces otherwise (no uncaught exception, no death of the process).
C5_AlwaysJsonPayload ==
    pc = "exit" => Len(stdout) = 1 /\ escaped = ""

\* what the pooled path prints for the identifiers `paths`: the map from each
\* identifier to its result
PooledOutput(paths) == [p \in Range(paths) |-> AnalysisTable[p].value]

\* The pooled path does print PooledOutput when no worker dies.
PooledPathPrintsMap ==
    pc = "exit" /\ Len(file_paths) >= 2 /\ escaped = "" /\ ~broken =>
        stdout = <<PooledOutput(file_paths)>>

\* C6: the payload printed for exactly one identifier is the one the pooled
\* path produces for it: a JSON object mapping the identifier to its result.
C6_SingleItemSameAsPooled ==
    pc = "exit" /\ Len(file_paths) = 1 /\ Len(stdout) = 1 =>
        /\ DOMAIN stdout[1] = {file_paths[1]}
        /\ stdout = <<PooledOutput(file_paths)>>

====
